---------------------------- MODULE Spec2Model ----------------------------
(***************************************************************************)
(* A model of LTemplate.h (namespace mma): the typed views over the host   *)
(* array runtime's handles (MTensor, MSparseArray, MRawArray, MImage) and  *)
(* the factories that allocate them.                                       *)
(*                                                                         *)
(* Arrays are functions over 0-based index ranges, as in the C++ source.   *)
(* Each specification below exercises one family of the header:            *)
(*   SpecSparseRead  SparseMatrixRef::operator(), explicitValues()         *)
(*   SpecSparseIter  SparseMatrixRef::iterator, begin(), end()             *)
(*   SpecSparseMake  makeSparseArray(), resetImplicitValue(), free()       *)
(*   SpecDense       makeMatrix(), makeCube() from nested initializer      *)
(*                   lists, MatrixRef / CubeRef indexing                   *)
(*   SpecImage       ImageRef / Image3DRef operator()                      *)
(*   SpecWrap        TensorRef and RawArrayRef construction over a handle  *)
(***************************************************************************)
EXTENDS Integers, Sequences, FiniteSets, TLC

VARIABLES
    sm,     \* the 2-D sparse view under test (SparseMatrixRef and its handle)
    res,    \* what the last call on the sparse view returned or threw
    it,     \* the SparseMatrixRef::iterator under test
    ndebug, \* build configuration: TRUE when NDEBUG is defined (massert is a no-op)
    heap,   \* the host array runtime's handles: handle id -> what it holds
    ret,    \* outcome of the last factory or conversion call
    im,     \* one logical image held by two MImages: interleaved and planar
    px,     \* the last pixel written through ImageRef / Image3DRef operator()
    wr      \* outcome of the last construction of a view over a host handle

sparseVars == <<sm, res, it>>
hostVars == <<ndebug, heap, ret>>
otherVars == <<im, px, wr>>

vars == <<sm, res, it, ndebug, heap, ret, im, px, wr>>

-----------------------------------------------------------------------------
(* Bounds of the model *)

MaxRows == 3
MaxCols == 2
MaxPos == 2
MaxRank == 3
MaxHandles == 5
MaxLitRows == 2
MaxLitCols == 3
MaxCubeDim == 2
MaxImgDim == 2
MaxChannels == 2
MaxWrites == 1
MaxViewRank == 3
MaxExtent == 2

\* Candidate implicit values; explicit value k is stored as k + 1, so the
\* implicit value 1 coincides with a stored value and 0 with none.
ImplicitValues == {0, 1}

None == [kind |-> "none"]

\* no image and no view construction is exercised
OtherIdle ==
    /\ im = None
    /\ px = None
    /\ wr = None

\* the host runtime when no factory is exercised
HostIdle ==
    /\ ndebug = FALSE
    /\ heap = <<>>
    /\ ret = None
    /\ OtherIdle

-----------------------------------------------------------------------------
(* The host's compressed-row storage of a rank-2 MSparseArray *)

\* rowPointer[k]: number of explicit entries in rows 0..k-1
RECURSIVE RowPtr(_, _)
RowPtr(p, k) == IF k = 0 THEN 0 ELSE RowPtr(p, k - 1) + Cardinality(p[k - 1])

\* the n-th smallest (0-based) element of a set of column numbers
NthSmallest(S, n) == CHOOSE c \in S : Cardinality({d \in S : d < c}) = n

\* The CSR components the host holds for the sparsity pattern p, a function
\* from the rows 0..nr-1 to the sets of 1-based columns stored in each row:
\* row pointers of length nr+1, column indices ascending within each row,
\* and (unless the array is a pattern array) one explicit value per entry.
HostCSR(nr, nc, p, hasEv, iv) ==
    LET rp  == [k \in 0..nr |-> RowPtr(p, k)]
        nnz == rp[nr]
        rowOf(k) == CHOOSE r \in 0..(nr - 1) : rp[r] <= k /\ k < rp[r + 1]
        ci  == [k \in 0..(nnz - 1) |-> NthSmallest(p[rowOf(k)], k - rp[rowOf(k)])]
        ev  == IF hasEv THEN [k \in 0..(nnz - 1) |-> k + 1] ELSE [k \in {} |-> 0]
    IN  [nrows |-> nr, ncols |-> nc, rp |-> rp, ci |-> ci,
         hasEv |-> hasEv, ev |-> ev, iv |-> iv]

SparseMatrices ==
    UNION { UNION { { HostCSR(nr, nc, p, hasEv, iv) :
                        p \in [0..(nr - 1) -> SUBSET (1..nc)],
                        hasEv \in BOOLEAN, iv \in ImplicitValues }
                    : nc \in 1..MaxCols } : nr \in 0..MaxRows }

-----------------------------------------------------------------------------
(* SparseArrayRef / SparseMatrixRef accessors *)

\* SparseArrayRef::length(): ci.length()
Size(s) == Cardinality(DOMAIN s.ci)

\* SparseArrayRef::explicitValuesQ(): ! ev.nullQ()
explicitValuesQ(s) == s.hasEv

\* explicitValues() without the pattern-array guard
explicitValues_NoCheck(s) ==
    [op |-> "explicitValues", kind |-> "tensor", val |-> Size(s), off |-> -1, i |-> -1, j |-> -1]

\* SparseArrayRef::explicitValues()
explicitValues(s) ==
    IF ~explicitValuesQ(s)
    THEN [op |-> "explicitValues", kind |-> "error", val |-> 0, off |-> -1, i |-> -1, j |-> -1]
    ELSE [op |-> "explicitValues", kind |-> "tensor", val |-> Size(s), off |-> -1, i |-> -1, j |-> -1]

\* std::upper_bound in place of std::lower_bound
RECURSIVE LowerBound_Upper(_, _, _, _)
LowerBound_Upper(ci, first, count, key) ==
    IF count <= 0 THEN first
    ELSE LET step == count \div 2
             mid  == first + step
         IN  IF ci[mid] <= key
             THEN LowerBound_Upper(ci, mid + 1, count - (step + 1), key)
             ELSE LowerBound_Upper(ci, first, step, key)

\* std::lower_bound(&ci[first], &ci[first+count], key): binary search for the
\* first position in [first, first+count) whose element is not less than key
RECURSIVE LowerBound(_, _, _, _)
LowerBound(ci, first, count, key) ==
    IF count <= 0 THEN first
    ELSE LET step == count \div 2
             mid  == first + step
         IN  IF ci[mid] < key
             THEN LowerBound(ci, mid + 1, count - (step + 1), key)
             ELSE LowerBound(ci, first, step, key)

\* operator() without the pattern-array guard
SparseRead_NoPatternCheck(s, i, j) ==
    LET lower == s.rp[i]
        upper == s.rp[i + 1]
        cp    == LowerBound(s.ci, lower, upper - lower, j + 1)
    IN  IF cp = upper
        THEN [op |-> "read", kind |-> "implicit", val |-> s.iv, off |-> -1, i |-> i, j |-> j]
        ELSE IF s.ci[cp] = j + 1 /\ s.hasEv
        THEN [op |-> "read", kind |-> "explicit", val |-> s.ev[cp], off |-> cp, i |-> i, j |-> j]
        ELSE [op |-> "read", kind |-> "implicit", val |-> s.iv, off |-> -1, i |-> i, j |-> j]

\* SparseMatrixRef::operator()(i, j)
SparseRead(s, i, j) ==
    IF ~explicitValuesQ(s)
    THEN [op |-> "read", kind |-> "error", val |-> 0, off |-> -1, i |-> i, j |-> j]
    ELSE LET lower == s.rp[i]
             upper == s.rp[i + 1]
             cp    == LowerBound(s.ci, lower, upper - lower, j + 1)
         IN  IF cp = upper
             THEN [op |-> "read", kind |-> "implicit", val |-> s.iv, off |-> -1, i |-> i, j |-> j]
             ELSE IF s.ci[cp] = j + 1
             THEN [op |-> "read", kind |-> "explicit", val |-> s.ev[lower + (cp - lower)],
                   off |-> lower + (cp - lower), i |-> i, j |-> j]
             ELSE [op |-> "read", kind |-> "implicit", val |-> s.iv, off |-> -1, i |-> i, j |-> j]

-----------------------------------------------------------------------------
(* Specification of the random read *)

InitSparseRead ==
    /\ sm \in SparseMatrices
    /\ res = None
    /\ it = None
    /\ HostIdle

Read ==
    /\ \E i \in 0..(sm.nrows - 1), j \in 0..(sm.ncols - 1) : res' = SparseRead(sm, i, j)
    /\ UNCHANGED <<sm, it, hostVars, otherVars>>

ExplicitValues ==
    /\ res' = explicitValues(sm)
    /\ UNCHANGED <<sm, it, hostVars, otherVars>>

NextSparseRead == Read \/ ExplicitValues

SpecSparseRead == InitSparseRead /\ [][NextSparseRead]_vars

-----------------------------------------------------------------------------
(* Claims about the random read *)

\* Reference: scan the column-index sub-range [k, upper) of a row from left
\* to right for the 1-based column key.
RECURSIVE LinearScan(_, _, _, _)
LinearScan(s, k, upper, key) ==
    IF k >= upper THEN [kind |-> "implicit", val |-> s.iv, off |-> -1]
    ELSE IF s.ci[k] = key THEN [kind |-> "explicit", val |-> s.ev[k], off |-> k]
    ELSE LinearScan(s, k + 1, upper, key)

\* C1: on a non-pattern 2-D sparse view (column indices ascending within
\* each row) the binary-search read view(i,j) returns what a linear scan of
\* the row's column-index sub-range finds: the explicit value at the offset
\* holding column j+1, otherwise the implicit value.
C1_ReadMatchesLinearScan ==
    (res.kind # "none" /\ res.op = "read" /\ sm.hasEv) =>
        LET ref == LinearScan(sm, sm.rp[res.i], sm.rp[res.i + 1], res.j + 1)
        IN  /\ res.kind = ref.kind
            /\ res.val = ref.val
            /\ res.off = ref.off

\* a read that found its column behind another entry of the same row
C1_Witness ==
    /\ res.kind = "explicit"
    /\ res.op = "read"
    /\ res.off > sm.rp[res.i]
    /\ sm.ci[res.off] = res.j + 1
    /\ res.val # sm.iv

\* C4: on a pattern array explicitValuesQ() is false, explicitValues() and
\* every indexed read view(i,j) fail with an error instead of returning
\* data, and neither call changes the view or the handle.
C4_PatternArrayAccessFails ==
    /\ [](~sm.hasEv =>
            /\ ~explicitValuesQ(sm)
            /\ (res.kind # "none" /\ res.op \in {"read", "explicitValues"}) => res.kind = "error")
    /\ [][sm' = sm]_vars

\* explicitValues() has been called on a pattern array and has failed
C4_Witness ==
    /\ ~sm.hasEv
    /\ res.kind = "error"
    /\ res.op = "explicitValues"

\* C5 as stated: on a pattern array every indexed read returns the implicit
\* value.
C5_PatternReadReturnsImplicit ==
    (~sm.hasEv /\ res.kind # "none" /\ res.op = "read") =>
        (res.kind = "implicit" /\ res.val = sm.iv)

\* C5 as amended: on a pattern array an indexed read returns no value at all
\* (it fails); the implicit value is returned only by a read of a non-pattern
\* view at a position whose column is not stored in the row.
C5_ImplicitOnlyFromNonPattern ==
    (res.kind # "none" /\ res.op = "read") =>
        /\ ~sm.hasEv => res.kind \notin {"implicit", "explicit"}
        /\ res.kind = "implicit" =>
              /\ sm.hasEv
              /\ res.val = sm.iv
              /\ \A k \in sm.rp[res.i]..(sm.rp[res.i + 1] - 1) : sm.ci[k] # res.j + 1

\* an indexed read of a pattern array at a position the pattern stores
C5_Witness ==
    /\ ~sm.hasEv
    /\ res.kind = "error"
    /\ res.op = "read"
    /\ \E k \in sm.rp[res.i]..(sm.rp[res.i + 1] - 1) : sm.ci[k] = res.j + 1

-----------------------------------------------------------------------------
(* SparseMatrixRef::iterator *)

\* A read of rp[k].  The row-pointer tensor has nrows+1 elements; a read
\* past its end is undefined and may yield any count.
RpRead(s, k) ==
    IF k \in DOMAIN s.rp THEN {s.rp[k]} ELSE 0..(Size(s) + 1)

RpInBounds(s, k) == k \in DOMAIN s.rp

\* the row-advance loop bounded by the number of rows instead of size()
RECURSIVE AdvanceRow_RowBound(_, _, _, _)
AdvanceRow_RowBound(s, row, index, oob) ==
    UNION { IF v = index /\ row < s.nrows
            THEN AdvanceRow_RowBound(s, row + 1, index, oob \/ ~RpInBounds(s, row + 1))
            ELSE {[row |-> row, oob |-> oob \/ ~RpInBounds(s, row + 1)]}
            : v \in RpRead(s, row + 1) }

\* while (sm.rp[row_index+1] == index && row_index < sm.size()) row_index++;
\* the set of rows the loop may stop at, each with whether a read of rp was
\* out of bounds
RECURSIVE AdvanceRow(_, _, _, _)
AdvanceRow(s, row, index, oob) ==
    UNION { IF v = index /\ row < Size(s)
            THEN AdvanceRow(s, row + 1, index, oob \/ ~RpInBounds(s, row + 1))
            ELSE {[row |-> row, oob |-> oob \/ ~RpInBounds(s, row + 1)]}
            : v \in RpRead(s, row + 1) }

\* while (sm.rp[row_index] == index && row_index > 0) row_index--;
RECURSIVE RetreatRow(_, _, _, _)
RetreatRow(s, row, index, oob) ==
    UNION { IF v = index /\ row > 0
            THEN RetreatRow(s, row - 1, index, oob \/ ~RpInBounds(s, row))
            ELSE {[row |-> row, oob |-> oob \/ ~RpInBounds(s, row)]}
            : v \in RpRead(s, row) }

Iter(row, index, fwd, oob) ==
    [kind |-> "iter", row |-> row, index |-> index, fwd |-> fwd, oob |-> oob]

\* SparseMatrixRef::begin()
begin(s) == { Iter(r.row, 0, TRUE, r.oob) : r \in AdvanceRow(s, 0, 0, FALSE) }

\* SparseMatrixRef::end()
end(s) == Iter(s.nrows, Size(s), FALSE, FALSE)

\* iterator::operator++()
Increment(s, i) ==
    { Iter(r.row, i.index + 1, i.fwd, r.oob) : r \in AdvanceRow(s, i.row, i.index + 1, FALSE) }

\* iterator::operator--()
Decrement(s, i) ==
    { Iter(r.row, i.index - 1, FALSE, r.oob) : r \in RetreatRow(s, i.row, i.index, FALSE) }

\* a comparison of the row as well as the storage offset
IterEq_RowAndIndex(a, b) == a.index = b.index /\ a.row = b.row

\* iterator::operator==: only the storage offsets are compared
IterEq(a, b) == a.index = b.index

\* iterator::row(), iterator::col(), iterator::operator*
IterRow(i) == i.row
IterCol(s, i) == s.ci[i.index] - 1
IterDeref(s, i) == s.ev[i.index]

-----------------------------------------------------------------------------
(* Specification of the iteration over explicit entries *)

InitSparseIter ==
    /\ sm \in SparseMatrices
    /\ res = None
    /\ it = None
    /\ HostIdle

Begin ==
    /\ it' \in begin(sm)
    /\ UNCHANGED <<sm, res, hostVars, otherVars>>

End ==
    /\ it' = end(sm)
    /\ UNCHANGED <<sm, res, hostVars, otherVars>>

\* ++it, applied to an iterator that is not equal to end()
Inc ==
    /\ it.kind = "iter"
    /\ ~IterEq(it, end(sm))
    /\ it' \in Increment(sm, it)
    /\ UNCHANGED <<sm, res, hostVars, otherVars>>

\* --it, applied to an iterator that is not equal to begin()
Dec ==
    /\ it.kind = "iter"
    /\ it.index > 0
    /\ it' \in Decrement(sm, it)
    /\ UNCHANGED <<sm, res, hostVars, otherVars>>

NextSparseIter == Begin \/ End \/ Inc \/ Dec

SpecSparseIter == InitSparseIter /\ [][NextSparseIter]_vars

-----------------------------------------------------------------------------
(* Claims about the iteration *)

\* the row that holds storage offset k
RowOfOffset(s, k) == CHOOSE r \in 0..(s.nrows - 1) : s.rp[r] <= k /\ k < s.rp[r + 1]

\* C2: iterating from begin() with ++ until end() visits the storage offsets
\* 0, 1, ..., size()-1 in ascending order, and at offset k the iterator
\* reports the row r with rowPointer[r] <= k < rowPointer[r+1], the column
\* columnIndex[k]-1 and the value explicitValue[k].
C2_IterationVisitsEntriesInOrder ==
    /\ [](( it.kind = "iter" /\ it.fwd /\ ~IterEq(it, end(sm)) ) =>
            /\ it.index \in 0..(Size(sm) - 1)
            /\ IterRow(it) = RowOfOffset(sm, it.index)
            /\ IterCol(sm, it) = sm.ci[it.index] - 1
            /\ sm.hasEv => IterDeref(sm, it) = sm.ev[it.index])
    /\ [][( it.kind = "iter" /\ it.fwd /\ it'.kind = "iter" /\ it'.fwd /\ it'.index # 0 )
            => ( it'.index = it.index + 1 /\ it'.row >= it.row )]_vars

-----------------------------------------------------------------------------
(* The host array runtime: handles and allocation *)

HandleIds == 1..MaxHandles

Free == [kind |-> "free"]

\* an MTensor: role names who allocated it ("pos", "vals", "dims": arguments
\* owned by the caller; "implicit": the rank-0 tensor of an implicit value)
Tensor(role, dims) == [kind |-> "tensor", role |-> role, dims |-> dims]

\* MTensor_getFlattenedLength
RECURSIVE FlattenedLength(_)
FlattenedLength(dims) ==
    IF dims = <<>> THEN 1 ELSE Head(dims) * FlattenedLength(Tail(dims))

Live(hp) == {h \in HandleIds : hp[h].kind # "free"}

\* the host can allocate while it has a handle left
CanAlloc(hp) == Live(hp) # HandleIds

NewId(hp) == CHOOSE h \in HandleIds \ Live(hp) : \A g \in HandleIds \ Live(hp) : h <= g

\* LibraryError thrown out of an operation
Throw(hp, op, err, allocated) ==
    [heap |-> hp,
     ret  |-> [kind |-> "ret", op |-> op, status |-> "error", err |-> err,
               view |-> None, allocated |-> allocated]]

Return(hp, op, view, allocated) ==
    [heap |-> hp,
     ret  |-> [kind |-> "ret", op |-> op, status |-> "ok", err |-> "none",
               view |-> view, allocated |-> allocated]]

\* The answers of the host to the calls one operation makes: whether each
\* allocation succeeds, and what a freshly built sparse array with no
\* explicit entry lacks (column indices, explicit values).
HostAnswers ==
    [okIt : BOOLEAN, okSa : BOOLEAN, okEv : BOOLEAN, okCi : BOOLEAN,
     noCi : BOOLEAN, pattern : BOOLEAN]

-----------------------------------------------------------------------------
(* SparseArrayRef construction and the sparse factories *)

\* The dimensions of the column-index tensor of a sparse array in the host's
\* CSR layout: the row pointers run over the first index, and each explicit
\* entry has one row of the remaining rank-1 indices (one index for a
\* vector); the empty tensor getColumnIndices inserts has no row at all.
ColumnIndexDims(sa) == <<sa.nnz, IF sa.rank = 1 THEN 1 ELSE sa.rank - 1>>

\* the constructor without the replacement of an absent column-index tensor
WrapSparse_NoColumnIndexFixup(hp, h, okCi) ==
    LET sa  == hp[h]
        sa1 == sa
        hp1 == [hp EXCEPT ![h] = sa1]
    IN  { [heap |-> hp1,
           view |-> [kind |-> "sparseView", sa |-> h, len |-> n,
                     ciNull |-> ~sa1.hasCi, evNull |-> ~sa1.hasEv]]
          : n \in IF sa1.hasCi THEN {FlattenedLength(ColumnIndexDims(sa1))}
                             ELSE 0..MaxPos }

\* SparseArrayRef::SparseArrayRef(msa) with getColumnIndices and
\* getExplicitValues: an absent column-index tensor is replaced by an empty
\* one (the result of MTensor_new is not looked at); the view caches the
\* length of the column indices and whether explicit values exist.
\* Wrapping a still absent column-index tensor reads through a null handle:
\* the cached length is then any value.
WrapSparse(hp, h, okCi) ==
    LET sa  == hp[h]
        sa1 == IF ~sa.hasCi /\ okCi THEN [sa EXCEPT !.hasCi = TRUE] ELSE sa
        hp1 == [hp EXCEPT ![h] = sa1]
    IN  { [heap |-> hp1,
           view |-> [kind |-> "sparseView", sa |-> h, len |-> n,
                     ciNull |-> ~sa1.hasCi, evNull |-> ~sa1.hasEv]]
          : n \in IF sa1.hasCi THEN {FlattenedLength(ColumnIndexDims(sa1))}
                             ELSE 0..MaxPos }

\* SparseArrayRef::explicitValuesQ() of a wrapped handle
ViewExplicitValuesQ(v) == ~v.evNull

\* makeSparseArray(pos, vals, dims, imp); nd: massert is compiled out
makeSparseArray(hp, nd, pos, vals, dims, imp, a) ==
    IF ~nd /\ hp[pos].dims[2] # FlattenedLength(hp[dims].dims)
    THEN {Throw(hp, "makeSparseArray", "assert", {})}
    ELSE IF ~nd /\ hp[pos].dims[1] # FlattenedLength(hp[vals].dims)
    THEN {Throw(hp, "makeSparseArray", "assert", {})}
    ELSE IF ~(a.okIt /\ CanAlloc(hp))
    THEN {Throw(hp, "makeSparseArray", "MTensor_new", {})}
    ELSE LET itId == NewId(hp)
             hp1  == [hp EXCEPT ![itId] = Tensor("implicit", <<>>)]
         IN  IF ~(a.okSa /\ CanAlloc(hp1))
             THEN {Throw([hp1 EXCEPT ![itId] = Free], "makeSparseArray",
                         "MSparseArray_fromExplicitPositions", {itId})}
             ELSE LET saId == NewId(hp1)
                      n    == hp[pos].dims[1]
                      \* the host's result: without positions it may lack
                      \* column indices and explicit values
                      sa0  == [kind |-> "sparse", rank |-> FlattenedLength(hp[dims].dims),
                               nnz |-> n, hasCi |-> n > 0 \/ ~a.noCi,
                               hasEv |-> n > 0 \/ ~a.pattern, iv |-> imp]
                      \* if (*ev == NULL) MTensor_new(..., ev): result ignored
                      sa1  == IF ~sa0.hasEv /\ a.okEv THEN [sa0 EXCEPT !.hasEv = TRUE] ELSE sa0
                      hp2  == [hp1 EXCEPT ![saId] = sa1, ![itId] = Free]
                  IN  { Return(w.heap, "makeSparseArray", w.view, {itId, saId})
                        : w \in WrapSparse(hp2, saId, a.okCi) }

\* SparseArrayRef::resetImplicitValue(iv) on the sparse handle h; the host
\* builds a new sparse array with explicit values and n explicit entries
resetImplicitValue(hp, h, iv, n, a) ==
    IF ~(a.okIt /\ CanAlloc(hp))
    THEN {Throw(hp, "resetImplicitValue", "MTensor_new", {})}
    ELSE LET itId == NewId(hp)
             hp1  == [hp EXCEPT ![itId] = Tensor("implicit", <<>>)]
         IN  IF ~(a.okSa /\ CanAlloc(hp1))
             THEN {Throw(hp1, "resetImplicitValue", "MSparseArray_resetImplicitValue", {itId})}
             ELSE LET saId == NewId(hp1)
                      sa0  == [kind |-> "sparse", rank |-> hp[h].rank, nnz |-> n,
                               hasCi |-> n > 0 \/ ~a.noCi, hasEv |-> TRUE, iv |-> iv]
                      hp2  == [hp1 EXCEPT ![saId] = sa0, ![itId] = Free]
                  IN  { Return(w.heap, "resetImplicitValue", w.view, {itId, saId})
                        : w \in WrapSparse(hp2, saId, a.okCi) }

\* SparseArrayRef::free(): MSparseArray_free
freeSparse(hp, h) ==
    [heap |-> [hp EXCEPT ![h] = Free],
     ret  |-> [kind |-> "ret", op |-> "free", status |-> "ok", err |-> "none",
               view |-> None, allocated |-> {}]]

-----------------------------------------------------------------------------
(* Specification of the sparse factories *)

\* The caller holds a positions matrix (handle 1), a values vector (handle 2)
\* and a dimensions vector (handle 3); their shapes need not agree.
PosId == 1
ValsId == 2
DimsId == 3

InitSparseMake ==
    /\ sm = None
    /\ res = None
    /\ it = None
    /\ ndebug \in BOOLEAN
    /\ \E np \in 0..MaxPos, pc \in 1..MaxRank, nv \in 0..MaxPos, nd \in 1..MaxRank :
          heap = [h \in HandleIds |->
                    IF h = PosId THEN Tensor("pos", <<np, pc>>)
                    ELSE IF h = ValsId THEN Tensor("vals", <<nv>>)
                    ELSE IF h = DimsId THEN Tensor("dims", <<nd>>)
                    ELSE Free]
    /\ ret = None
    /\ OtherIdle

Apply(o) ==
    /\ heap' = o.heap
    /\ ret' = o.ret
    /\ UNCHANGED <<sm, res, it, ndebug, otherVars>>

MakeSparseArray ==
    \E imp \in ImplicitValues, a \in HostAnswers :
        \E o \in makeSparseArray(heap, ndebug, PosId, ValsId, DimsId, imp, a) : Apply(o)

ResetImplicitValue ==
    \E h \in Live(heap), iv \in ImplicitValues, n \in 0..MaxPos, a \in HostAnswers :
        /\ heap[h].kind = "sparse"
        /\ \E o \in resetImplicitValue(heap, h, iv, n, a) : Apply(o)

FreeSparse ==
    \E h \in Live(heap) :
        /\ heap[h].kind = "sparse"
        /\ Apply(freeSparse(heap, h))

NextSparseMake == MakeSparseArray \/ ResetImplicitValue \/ FreeSparse

SpecSparseMake == InitSparseMake /\ [][NextSparseMake]_vars

-----------------------------------------------------------------------------
(* Claims about the sparse factories *)

\* the caller's arguments satisfy makeSparseArray's preconditions
ValidSparseArgs ==
    /\ heap[PosId].dims[2] = FlattenedLength(heap[DimsId].dims)
    /\ heap[PosId].dims[1] = FlattenedLength(heap[ValsId].dims)

\* C3: makeSparseArray never returns a pattern array: for every valid input
\* the returned view has explicitValuesQ() == true, and with zero positions
\* it has length() == 0.
C3_MakeSparseArrayNeverPattern ==
    (ret.kind = "ret" /\ ret.op = "makeSparseArray" /\ ret.status = "ok" /\ ValidSparseArgs) =>
        /\ ViewExplicitValuesQ(ret.view)
        /\ heap[PosId].dims[1] = 0 => ret.view.len = 0

\* handles allocated by the last call that are still allocated and are not
\* the handle the call returned
Leftover ==
    { h \in ret.allocated :
        /\ heap[h].kind # "free"
        /\ ~(ret.status = "ok" /\ ret.view.kind = "sparseView" /\ ret.view.sa = h) }

\* C6: after resetImplicitValue(newImplicit), whether it returned or raised
\* an error, the temporary rank-0 tensor of the new implicit value is freed:
\* no temporary handle of the call remains allocated.
C6_ResetImplicitValueFreesTemporary ==
    (ret.kind = "ret" /\ ret.op = "resetImplicitValue") => Leftover = {}

-----------------------------------------------------------------------------
(* Dense factories from nested initializer lists; MatrixRef and CubeRef *)

\* sequences over S of length at most n
SeqsUpTo(S, n) == UNION { [1..k -> S] : k \in 0..n }

RECURSIVE SumLens(_, _)
SumLens(shape, r) == IF r = 0 THEN 0 ELSE SumLens(shape, r - 1) + shape[r]

\* The initializer list {{..},{..},..} whose r-th row has shape[r] elements;
\* the elements are numbered 1, 2, 3, ... in the order they are written.
MatrixLiteral(shape, base) ==
    [r \in 1..Len(shape) |-> [e \in 1..shape[r] |-> base + SumLens(shape, r - 1) + e]]

RECURSIVE SumSlices(_, _)
SumSlices(shape, s) ==
    IF s = 0 THEN 0 ELSE SumSlices(shape, s - 1) + SumLens(shape[s], Len(shape[s]))

CubeLiteral(shape) ==
    [s \in 1..Len(shape) |-> MatrixLiteral(shape[s], SumSlices(shape, s - 1))]

MatrixLiterals == { MatrixLiteral(sh, 0) : sh \in SeqsUpTo(0..MaxLitCols, MaxLitRows) }

\* Shapes of the cube literals: every rectangular shape of up to MaxCubeDim
\* slices, rows and columns, and each of them with one slice given another
\* number of rows or one row given another length.
RectCube(ns, rs, cs) == [s \in 1..ns |-> [r \in 1..rs |-> cs]]

CubeShapes ==
    LET D == 0..MaxCubeDim
        P == 1..MaxCubeDim
    IN  { RectCube(t[1], t[2], t[3]) : t \in D \X D \X D }
        \cup { [RectCube(t[1], t[2], t[3]) EXCEPT ![t[4]] = [r \in 1..t[5] |-> t[3]]]
                : t \in { u \in D \X D \X D \X P \X D : u[4] <= u[1] } }
        \cup { [RectCube(t[1], t[2], t[3]) EXCEPT ![t[4]][t[5]] = t[6]]
                : t \in { u \in D \X D \X D \X P \X P \X D : u[4] <= u[1] /\ u[5] <= u[2] } }

CubeLiterals == { CubeLiteral(sh) : sh \in CubeShapes }

\* a dense MTensor with its row-major storage, zero-initialised by the host
DenseTensor(dims) ==
    [kind |-> "tensor", role |-> "result", dims |-> dims,
     data |-> [k \in 0..(FlattenedLength(dims) - 1) |-> 0]]

\* *ptr = el; ptr++  (a store past the end of the storage is only recorded)
RECURSIVE WriteElems(_, _, _)
WriteElems(row, e, st) ==
    IF e > Len(row) THEN st
    ELSE WriteElems(row, e + 1,
            [data |-> IF st.ptr \in DOMAIN st.data
                      THEN [st.data EXCEPT ![st.ptr] = row[e]] ELSE st.data,
             ptr  |-> st.ptr + 1,
             oob  |-> st.oob \/ st.ptr \notin DOMAIN st.data,
             failed |-> FALSE])

\* for (row : m) { massert(row.size() == cols); for (el : row) ... }
\* nd: massert is compiled out
RECURSIVE FillRows(_, _, _, _, _)
FillRows(m, r, cols, nd, st) ==
    IF r > Len(m) \/ st.failed THEN st
    ELSE IF ~nd /\ Len(m[r]) # cols THEN [st EXCEPT !.failed = TRUE]
    ELSE FillRows(m, r + 1, cols, nd, WriteElems(m[r], 1, st))

\* for (slice : c) { massert(slice.size() == rs); for (row : slice) ... }
RECURSIVE FillSlices(_, _, _, _, _, _)
FillSlices(c, s, rs, cs, nd, st) ==
    IF s > Len(c) \/ st.failed THEN st
    ELSE IF ~nd /\ Len(c[s]) # rs THEN [st EXCEPT !.failed = TRUE]
    ELSE FillSlices(c, s + 1, rs, cs, nd, FillRows(c[s], 1, cs, nd, st))

\* the outcome of a nested-literal factory once the tensor tId is allocated
Filled(hp, op, tId, dims, st, arg) ==
    LET hp1 == [hp EXCEPT ![tId] = [DenseTensor(dims) EXCEPT !.data = st.data]]
        o   == IF st.failed
               THEN Throw(hp1, op, "assert", {tId})
               ELSE Return(hp1, op, [kind |-> "denseView", t |-> tId, dims |-> dims], {tId})
    IN  [heap |-> o.heap, ret |-> o.ret @@ [oob |-> st.oob, arg |-> arg]]

AllocFailed(hp, op, arg) ==
    LET o == Throw(hp, op, "MTensor_new", {})
    IN  [heap |-> o.heap, ret |-> o.ret @@ [oob |-> FALSE, arg |-> arg]]

\* makeMatrix(std::initializer_list<std::initializer_list<T>> m)
makeMatrix(hp, nd, m, ok) ==
    LET nrow == Len(m)
        ncol == IF nrow # 0 THEN Len(m[1]) ELSE 0
        dims == <<nrow, ncol>>
    IN  IF ~(ok /\ CanAlloc(hp)) THEN AllocFailed(hp, "makeMatrix", m)
        ELSE Filled(hp, "makeMatrix", NewId(hp), dims,
                    FillRows(m, 1, ncol, nd,
                             [data |-> DenseTensor(dims).data, ptr |-> 0,
                              oob |-> FALSE, failed |-> FALSE]), m)

\* makeCube(std::initializer_list<...<std::initializer_list<T>>> c)
makeCube(hp, nd, c, ok) ==
    LET ns == Len(c)
        rs == IF ns # 0 THEN Len(c[1]) ELSE 0
        cs == IF rs # 0 THEN Len(c[1][1]) ELSE 0
        dims == <<ns, rs, cs>>
    IN  IF ~(ok /\ CanAlloc(hp)) THEN AllocFailed(hp, "makeCube", c)
        ELSE Filled(hp, "makeCube", NewId(hp), dims,
                    FillSlices(c, 1, rs, cs, nd,
                               [data |-> DenseTensor(dims).data, ptr |-> 0,
                                oob |-> FALSE, failed |-> FALSE]), c)

\* column-major offset: rows and columns exchanged
MatrixOffset_ColumnMajor(dims, i, j) == dims[1] * j + i

\* MatrixRef::operator()(i, j): (*this)[ncols*i + j]
MatrixOffset(dims, i, j) == dims[2] * i + j

\* CubeRef::operator()(i, j, k): (*this)[i*nrows*ncols + j*ncols + k]
CubeOffset(dims, i, j, k) == i * dims[2] * dims[3] + j * dims[3] + k

-----------------------------------------------------------------------------
(* Specification of the dense factories: one factory call, then indexing *)

InitDense ==
    /\ sm = None
    /\ res = None
    /\ it = None
    /\ ndebug \in BOOLEAN
    /\ heap = [h \in HandleIds |-> Free]
    /\ ret = None
    /\ OtherIdle

MakeMatrix ==
    /\ ret.kind = "none"
    /\ \E m \in MatrixLiterals, ok \in BOOLEAN : Apply(makeMatrix(heap, ndebug, m, ok))

MakeCube ==
    /\ ret.kind = "none"
    /\ \E c \in CubeLiterals, ok \in BOOLEAN : Apply(makeCube(heap, ndebug, c, ok))

\* m(i, j) on the matrix a factory returned
IndexMatrix ==
    /\ ret.kind = "ret" /\ ret.op = "makeMatrix" /\ ret.status = "ok"
    /\ \E i \in 0..(ret.view.dims[1] - 1), j \in 0..(ret.view.dims[2] - 1) :
          res' = [kind |-> "elem", at |-> <<i, j>>,
                  off |-> MatrixOffset(ret.view.dims, i, j),
                  val |-> heap[ret.view.t].data[MatrixOffset(ret.view.dims, i, j)]]
    /\ UNCHANGED <<sm, it, hostVars, otherVars>>

\* c(i, j, k) on the cube a factory returned
IndexCube ==
    /\ ret.kind = "ret" /\ ret.op = "makeCube" /\ ret.status = "ok"
    /\ \E i \in 0..(ret.view.dims[1] - 1), j \in 0..(ret.view.dims[2] - 1),
          k \in 0..(ret.view.dims[3] - 1) :
          res' = [kind |-> "elem", at |-> <<i, j, k>>,
                  off |-> CubeOffset(ret.view.dims, i, j, k),
                  val |-> heap[ret.view.t].data[CubeOffset(ret.view.dims, i, j, k)]]
    /\ UNCHANGED <<sm, it, hostVars, otherVars>>

NextDense == MakeMatrix \/ MakeCube \/ IndexMatrix \/ IndexCube

SpecDense == InitDense /\ [][NextDense]_vars

-----------------------------------------------------------------------------
(* Claims about the dense factories and shaped views *)

\* some row is not as long as the first row
JaggedMatrix(m) == \E r \in 1..Len(m) : Len(m[r]) # Len(m[1])

\* some slice has not as many rows as the first slice, or some row is not as
\* long as the first row of the first slice
JaggedCube(c) ==
    \/ \E s \in 1..Len(c) : Len(c[s]) # Len(c[1])
    \/ \E s \in 1..Len(c) : \E r \in 1..Len(c[s]) : Len(c[s][r]) # Len(c[1][1])

Jagged(op, arg) == IF op = "makeMatrix" THEN JaggedMatrix(arg) ELSE JaggedCube(arg)

\* C7: makeMatrix and makeCube from nested literals fail with an error on
\* every jagged input (once the tensor is allocated, the error is the failed
\* length check), and no element is ever written outside the allocated
\* buffer.
C7_JaggedLiteralRejected ==
    (ret.kind = "ret" /\ ret.op \in {"makeMatrix", "makeCube"}) =>
        /\ ~ret.oob
        /\ Jagged(ret.op, ret.arg) =>
              /\ ret.status = "error"
              /\ ret.err \in {"assert", "MTensor_new"}

\* C9: m(i,j) refers to flat element i*cols + j and c(i,j,k) to flat element
\* i*rows*cols + j*cols + k, so a matrix (cube) built from a rectangular
\* nested literal L satisfies m(i,j) == L[i][j] (c(i,j,k) == L[i][j][k]).
C9_RowMajorIndexing ==
    (res.kind = "elem" /\ ~Jagged(ret.op, ret.arg)) =>
        IF ret.op = "makeMatrix"
        THEN /\ res.off = res.at[1] * ret.view.dims[2] + res.at[2]
             /\ res.val = ret.arg[res.at[1] + 1][res.at[2] + 1]
        ELSE /\ res.off = res.at[1] * ret.view.dims[2] * ret.view.dims[3]
                          + res.at[2] * ret.view.dims[3] + res.at[3]
             /\ res.val = ret.arg[res.at[1] + 1][res.at[2] + 1][res.at[3] + 1]

\* makeMatrix({{1,2,3},{4,5,6}})(1,2) == 6
C9_Witness ==
    /\ res.kind = "elem"
    /\ ret.op = "makeMatrix"
    /\ ret.arg = <<(<<1, 2, 3>>), (<<4, 5, 6>>)>>
    /\ res.at = <<1, 2>>
    /\ res.val = 6

-----------------------------------------------------------------------------
(* ImageRef and Image3DRef indexing *)

\* the interleaved row stride without the channel count
ImageOffset_NoChannelStride(g, row, col, channel) ==
    IF g.interleaved
    THEN row * g.cols + col * g.channels + channel
    ELSE channel * g.rows * g.cols + row * g.cols + col

\* ImageRef::operator()(row, col, channel)
ImageOffset(g, row, col, channel) ==
    IF g.interleaved
    THEN row * g.cols * g.channels + col * g.channels + channel
    ELSE channel * g.rows * g.cols + row * g.cols + col

\* Image3DRef::operator()(slice, row, col, channel)
Image3DOffset(g, slice, row, col, channel) ==
    IF g.interleaved
    THEN slice * g.rows * g.cols * g.channels + row * g.cols * g.channels
         + col * g.channels + channel
    ELSE channel * g.slices * g.rows * g.cols + slice * g.rows * g.cols
         + row * g.cols + col

\* the storage offset of the pixel at c = <<slice, row, col, channel>>; a 2-D
\* image has one slice and is indexed by ImageRef
PixelOffset(g, c) ==
    IF g.rank = 2 THEN ImageOffset(g, c[2], c[3], c[4])
    ELSE Image3DOffset(g, c[1], c[2], c[3], c[4])

\* GenericImageRef: the geometry cached from the MImage
Geometry(rank, slices, rows, cols, channels, interleaved) ==
    [rank |-> rank, slices |-> slices, rows |-> rows, cols |-> cols,
     channels |-> channels, interleaved |-> interleaved]

\* MImage_getFlattenedLength
ImageLength(g) == g.slices * g.rows * g.cols * g.channels

Coords(g) == (0..(g.slices - 1)) \X (0..(g.rows - 1)) \X (0..(g.cols - 1)) \X (0..(g.channels - 1))

\* makeImage / makeImage3D: a new image, all pixels zero
NewImage(g) == [g |-> g, data |-> [k \in 0..(ImageLength(g) - 1) |-> 0]]

\* view(c) = v
SetPixel(image, c, v) == [image EXCEPT !.data[PixelOffset(image.g, c)] = v]

\* view(c)
GetPixel(image, c) == image.data[PixelOffset(image.g, c)]

-----------------------------------------------------------------------------
(* Specification of image indexing: the same pixels are written to an
   interleaved and to a planar image of the same geometry *)

InitImage ==
    /\ sm = None /\ res = None /\ it = None
    /\ ndebug = FALSE /\ heap = <<>> /\ ret = None
    /\ \E rank \in {2, 3}, slices \in 1..MaxImgDim, rows \in 1..MaxImgDim,
          cols \in 1..MaxImgDim, channels \in 1..MaxChannels :
          /\ rank = 2 => slices = 1
          /\ im = [kind |-> "images", n |-> 0,
                   inter  |-> NewImage(Geometry(rank, slices, rows, cols, channels, TRUE)),
                   planar |-> NewImage(Geometry(rank, slices, rows, cols, channels, FALSE)),
                   logical |-> [c \in Coords(Geometry(rank, slices, rows, cols, channels, TRUE)) |-> 0]]
    /\ px = None
    /\ wr = None

WritePixel ==
    /\ im.n < MaxWrites
    /\ \E c \in Coords(im.inter.g), v \in {1, 2} :
          /\ im' = [im EXCEPT !.n = @ + 1,
                              !.inter = SetPixel(@, c, v),
                              !.planar = SetPixel(@, c, v),
                              !.logical[c] = v]
          /\ px' = [kind |-> "pixel", at |-> c, val |-> v]
    /\ UNCHANGED <<sm, res, it, hostVars, wr>>

NextImage == WritePixel

SpecImage == InitImage /\ [][NextImage]_vars

-----------------------------------------------------------------------------
(* Claims about image indexing *)

Bijection(g) ==
    LET offsets == { PixelOffset(g, c) : c \in Coords(g) }
    IN  /\ offsets = 0..(ImageLength(g) - 1)
        /\ Cardinality(offsets) = Cardinality(Coords(g))

\* C8: the interleaved and the planar offset maps of a 2-D image and of a
\* 3-D image are bijections from the valid coordinates onto
\* [0, rows*cols*channels) ([0, slices*rows*cols*channels)); a pixel written
\* at a coordinate is read back there, every other logical pixel is
\* unchanged, and both layouts hold the same logical image.
C8_ImageIndexingLayoutIndependent ==
    im.kind = "images" =>
        /\ Bijection(im.inter.g)
        /\ Bijection(im.planar.g)
        /\ \A c \in Coords(im.inter.g) :
              /\ GetPixel(im.inter, c) = im.logical[c]
              /\ GetPixel(im.planar, c) = im.logical[c]
        /\ px.kind = "pixel" =>
              /\ GetPixel(im.inter, px.at) = px.val
              /\ GetPixel(im.planar, px.at) = px.val

\* 2x2 image with two channels: pixel (0,0, channel 1) set to a value in
\* both layouts, stored at different offsets
C8_Witness ==
    /\ im.kind = "images" /\ px.kind = "pixel"
    /\ im.inter.g.rank = 2 /\ im.inter.g.rows = 2 /\ im.inter.g.cols = 2
    /\ im.inter.g.channels = 2
    /\ px.at = <<0, 0, 0, 1>>
    /\ PixelOffset(im.inter.g, px.at) # PixelOffset(im.planar.g, px.at)
    /\ GetPixel(im.inter, px.at) = px.val
    /\ GetPixel(im.planar, px.at) = px.val

-----------------------------------------------------------------------------
(* Construction of typed views over a host handle *)

\* MType_Integer, MType_Real, MType_Complex
TensorTypes == {"Integer", "Real", "Complex"}

\* rawarray_t
RawArrayTypes ==
    {"Integer8", "UnsignedInteger8", "Integer16", "UnsignedInteger16",
     "Integer32", "UnsignedInteger32", "Integer64", "UnsignedInteger64",
     "Real32", "Real64", "Complex32", "Complex64"}

ViewOk(family, static, stored) ==
    [kind |-> "view", family |-> family, static |-> static, stored |-> stored,
     status |-> "ok", err |-> "none"]

ViewError(family, static, stored, err) ==
    [kind |-> "view", family |-> family, static |-> static, stored |-> stored,
     status |-> "error", err |-> err]

\* TensorRef<T>::TensorRef(const MTensor &): caches the data pointer and the
\* flattened length; libraryType<T>() only rejects an invalid T at compile
\* time, the type stored in the handle is not read
TensorRefCtor(static, stored) == ViewOk("tensor", static, stored)

\* RawArrayRef without the comparison of received and expected type
RawArrayRefCtor_NoCheck(static, stored) == ViewOk("rawarray", static, stored)

\* RawArrayRef<T>::RawArrayRef(const MRawArray &)
RawArrayRefCtor(static, stored) ==
    IF stored # static
    THEN ViewError("rawarray", static, stored, "LIBRARY_TYPE_ERROR")
    ELSE ViewOk("rawarray", static, stored)

InitWrap ==
    /\ sm = None /\ res = None /\ it = None
    /\ ndebug = FALSE /\ heap = <<>> /\ ret = None
    /\ im = None /\ px = None
    /\ wr = None

WrapTensor ==
    /\ \E T \in TensorTypes, stored \in TensorTypes : wr' = TensorRefCtor(T, stored)
    /\ UNCHANGED <<sparseVars, hostVars, im, px>>

WrapRawArray ==
    /\ \E T \in RawArrayTypes, stored \in RawArrayTypes : wr' = RawArrayRefCtor(T, stored)
    /\ UNCHANGED <<sparseVars, hostVars, im, px>>

NextWrap == WrapTensor \/ WrapRawArray

SpecWrap == InitWrap /\ [][NextWrap]_vars

-----------------------------------------------------------------------------
(* Claims about view construction *)

\* C10 as stated: wrapping a handle in a typed dense view or a flat
\* typed-buffer view whose static element kind differs from the stored kind
\* is an error; no view over a handle of a different stored kind is produced.
C10_MismatchedKindRejected ==
    (wr.kind = "view" /\ wr.family \in {"tensor", "rawarray"}) =>
        (wr.static # wr.stored => (wr.status = "error" /\ wr.err = "LIBRARY_TYPE_ERROR"))

\* C10 as amended: a flat typed-buffer view (RawArrayRef) is produced exactly
\* when the static kind equals the stored kind, and a mismatch is a type
\* error; a typed dense view (TensorRef) is produced for every handle, with
\* no run-time comparison of kinds.
C10_OnlyRawArrayChecksKind ==
    wr.kind = "view" =>
        /\ wr.family = "rawarray" =>
              /\ wr.status = "ok" <=> wr.static = wr.stored
              /\ wr.status = "error" => wr.err = "LIBRARY_TYPE_ERROR"
        /\ wr.family = "tensor" => wr.status = "ok"

\* a RawArrayRef<double> refused over a handle holding Real32 elements
C10_Witness ==
    /\ wr.kind = "view"
    /\ wr.family = "rawarray"
    /\ wr.static = "Real64"
    /\ wr.stored = "Real32"
    /\ wr.status = "error"

-----------------------------------------------------------------------------
(* Construction of shaped views: MatrixRef, CubeRef, SparseMatrixRef,
   ImageRef, Image3DRef *)

\* LibraryError(msg, err): msg is the message as the sequence of its parts,
\* code the LibraryFunction exit code (LIBRARY_FUNCTION_ERROR by default)
LibraryError(msg, code) == [msg |-> msg, code |-> code]

\* dimension vectors of the handles a shaped view is constructed from
HandleDims == UNION { [1..r -> 0..MaxExtent] : r \in 1..MaxViewRank }

Constructed(family, dims, ext) ==
    [kind |-> "view", family |-> family, dims |-> dims, status |-> "ok",
     err |-> None, ext |-> ext]

Refused(family, dims, e) ==
    [kind |-> "view", family |-> family, dims |-> dims, status |-> "error",
     err |-> e, ext |-> None]

\* MatrixRef with the two cached extents exchanged
MatrixRefCtor_SwappedExtents(dims) ==
    IF Len(dims) # 2
    THEN Refused("matrix", dims,
                 LibraryError(<<"MatrixRef: Matrix expected.">>, "LIBRARY_FUNCTION_ERROR"))
    ELSE Constructed("matrix", dims, [nrows |-> dims[2], ncols |-> dims[1]])

\* MatrixRef<T>::MatrixRef(const TensorRef<T> &)
MatrixRefCtor(dims) ==
    IF Len(dims) # 2
    THEN Refused("matrix", dims,
                 LibraryError(<<"MatrixRef: Matrix expected.">>, "LIBRARY_FUNCTION_ERROR"))
    ELSE Constructed("matrix", dims, [nrows |-> dims[1], ncols |-> dims[2]])

\* CubeRef<T>::CubeRef(const TensorRef<T> &)
CubeRefCtor(dims) ==
    IF Len(dims) # 3
    THEN Refused("cube", dims,
                 LibraryError(<<"CubeRef: Rank-3 tensor expected.">>, "LIBRARY_FUNCTION_ERROR"))
    ELSE Constructed("cube", dims,
                     [nslices |-> dims[1], nrows |-> dims[2], ncols |-> dims[3]])

\* SparseMatrixRef<T>::SparseMatrixRef(const SparseArrayRef<T> &)
SparseMatrixRefCtor(dims) ==
    IF Len(dims) # 2
    THEN Refused("sparseMatrix", dims,
                 LibraryError(<<"SparseMatrixRef: Matrix expected.">>, "LIBRARY_FUNCTION_ERROR"))
    ELSE Constructed("sparseMatrix", dims, [nrows |-> dims[1], ncols |-> dims[2]])

\* imagedata_t
ImageTypes == {"Bit", "Byte", "Bit16", "Real32", "Real"}

\* MImage_getRank of a host image
ImageRanks == {2, 3}

ImageConstructed(family, static, stored, rank) ==
    [kind |-> "view", family |-> family, static |-> static, stored |-> stored,
     rank |-> rank, status |-> "ok", err |-> None]

ImageRefused(family, static, stored, rank, e) ==
    [kind |-> "view", family |-> family, static |-> static, stored |-> stored,
     rank |-> rank, status |-> "error", err |-> e]

\* "Image of type <received> received, <expected> expected."
ImageTypeMessage(received, expected) ==
    <<"Image of type", received, "received,", expected, "expected.">>

\* ImageRef without the test of the rank
ImageRefCtor_NoRankCheck(static, stored, rank) ==
    IF stored # static
    THEN ImageRefused("image", static, stored, rank,
                      LibraryError(ImageTypeMessage(stored, static), "LIBRARY_TYPE_ERROR"))
    ELSE ImageConstructed("image", static, stored, rank)

\* ImageRef<T>::ImageRef(const MImage &): the pixel type is compared first,
\* then the rank
ImageRefCtor(static, stored, rank) ==
    IF stored # static
    THEN ImageRefused("image", static, stored, rank,
                      LibraryError(ImageTypeMessage(stored, static), "LIBRARY_TYPE_ERROR"))
    ELSE IF rank # 2
    THEN ImageRefused("image", static, stored, rank,
                      LibraryError(<<"2D image expected.">>, "LIBRARY_TYPE_ERROR"))
    ELSE ImageConstructed("image", static, stored, rank)

\* Image3DRef<T>::Image3DRef(const MImage &)
Image3DRefCtor(static, stored, rank) ==
    IF stored # static
    THEN ImageRefused("image3D", static, stored, rank,
                      LibraryError(ImageTypeMessage(stored, static), "LIBRARY_TYPE_ERROR"))
    ELSE IF rank # 3
    THEN ImageRefused("image3D", static, stored, rank,
                      LibraryError(<<"3D image expected.">>, "LIBRARY_TYPE_ERROR"))
    ELSE ImageConstructed("image3D", static, stored, rank)

InitShape ==
    /\ sm = None /\ res = None /\ it = None
    /\ ndebug = FALSE /\ heap = <<>> /\ ret = None
    /\ im = None /\ px = None
    /\ wr = None

WrapMatrix ==
    /\ \E dims \in HandleDims : wr' = MatrixRefCtor(dims)
    /\ UNCHANGED <<sparseVars, hostVars, im, px>>

WrapCube ==
    /\ \E dims \in HandleDims : wr' = CubeRefCtor(dims)
    /\ UNCHANGED <<sparseVars, hostVars, im, px>>

WrapSparseMatrix ==
    /\ \E dims \in HandleDims : wr' = SparseMatrixRefCtor(dims)
    /\ UNCHANGED <<sparseVars, hostVars, im, px>>

WrapImage ==
    /\ \E T \in ImageTypes, stored \in ImageTypes, rank \in ImageRanks :
          wr' = ImageRefCtor(T, stored, rank)
    /\ UNCHANGED <<sparseVars, hostVars, im, px>>

WrapImage3D ==
    /\ \E T \in ImageTypes, stored \in ImageTypes, rank \in ImageRanks :
          wr' = Image3DRefCtor(T, stored, rank)
    /\ UNCHANGED <<sparseVars, hostVars, im, px>>

NextShape == WrapMatrix \/ WrapCube \/ WrapSparseMatrix \/ WrapImage \/ WrapImage3D

SpecShape == InitShape /\ [][NextShape]_vars

-----------------------------------------------------------------------------
(* Claims about the construction of shaped views *)

\* the rank a shaped view requires of its handle
RequiredRank(family) == IF family \in {"cube", "image3D"} THEN 3 ELSE 2

\* the error raised for a handle of the wrong rank: it carries a message
\* of the family and is not a type error
ShapeMismatch(e) ==
    /\ e.code = "LIBRARY_FUNCTION_ERROR"
    /\ e.msg \in {<<"MatrixRef: Matrix expected.">>,
                  <<"CubeRef: Rank-3 tensor expected.">>,
                  <<"SparseMatrixRef: Matrix expected.">>}

\* C11: constructing a matrix view, cube view or 2-D sparse view from a view
\* whose rank is not 2 (matrix, sparse matrix) or 3 (cube) raises a
\* ShapeMismatch error and yields no view; when the rank matches, the cached
\* extents equal the handle's dimensions (rows=dims[0], cols=dims[1];
\* slices=dims[0], rows=dims[1], cols=dims[2] for cubes).
C11_RankValidated ==
    (wr.kind = "view" /\ wr.family \in {"matrix", "cube", "sparseMatrix"}) =>
        IF Len(wr.dims) # RequiredRank(wr.family)
        THEN /\ wr.status = "error"
             /\ ShapeMismatch(wr.err)
             /\ wr.ext = None
        ELSE /\ wr.status = "ok"
             /\ wr.ext.nrows = wr.dims[Len(wr.dims) - 1]
             /\ wr.ext.ncols = wr.dims[Len(wr.dims)]
             /\ wr.family = "cube" => wr.ext.nslices = wr.dims[1]

\* a 1x2 matrix view constructed, its extents cached in order
C11_Witness ==
    /\ wr.kind = "view"
    /\ wr.family = "matrix"
    /\ wr.dims = <<1, 2>>
    /\ wr.status = "ok"
    /\ wr.ext.nrows = 1

\* the message names the kind received and the kind expected
NamesReceivedAndExpected(v) ==
    /\ Len(v.err.msg) = 5
    /\ v.err.msg[2] = v.stored
    /\ v.err.msg[4] = v.static

\* C12 as stated: a pixel-kind mismatch raises TypeMismatch, and a rank
\* mismatch with matching pixel kind raises ShapeMismatch, an error code
\* different from the one of the kind mismatch; both errors carry a message
\* naming the received versus the expected kind.
C12_ImageFailuresDistinguished ==
    (wr.kind = "view" /\ wr.family \in {"image", "image3D"}) =>
        /\ wr.static # wr.stored =>
              /\ wr.status = "error"
              /\ wr.err.code = "LIBRARY_TYPE_ERROR"
              /\ NamesReceivedAndExpected(wr)
        /\ (wr.static = wr.stored /\ wr.rank # RequiredRank(wr.family)) =>
              /\ wr.status = "error"
              /\ wr.err.code # "LIBRARY_TYPE_ERROR"
              /\ NamesReceivedAndExpected(wr)

\* C12 as amended: an image view is constructed exactly when pixel kind and
\* rank both match; a pixel-kind mismatch raises LIBRARY_TYPE_ERROR with a
\* message naming the received and the expected kind, and a rank mismatch
\* with matching kind raises the same code LIBRARY_TYPE_ERROR with a message
\* naming only the expected rank.
C12_ImageFailuresShareTypeError ==
    (wr.kind = "view" /\ wr.family \in {"image", "image3D"}) =>
        /\ wr.status = "ok" <=>
              (wr.static = wr.stored /\ wr.rank = RequiredRank(wr.family))
        /\ wr.static # wr.stored =>
              /\ wr.err.code = "LIBRARY_TYPE_ERROR"
              /\ NamesReceivedAndExpected(wr)
        /\ (wr.static = wr.stored /\ wr.rank # RequiredRank(wr.family)) =>
              /\ wr.err.code = "LIBRARY_TYPE_ERROR"
              /\ wr.err.msg = IF wr.family = "image" THEN <<"2D image expected.">>
                                                     ELSE <<"3D image expected.">>

\* a 3-D image of matching pixel kind refused by the 2-D view
C12_Witness ==
    /\ wr.kind = "view"
    /\ wr.family = "image"
    /\ wr.static = wr.stored
    /\ wr.rank = 3
    /\ wr.status = "error"

-----------------------------------------------------------------------------
(* Factories and conversions of the dense, flat-buffer and image families *)

\* exit codes a host allocation or conversion call answers with
HostCodes == {"LIBRARY_NO_ERROR", "LIBRARY_MEMORY_ERROR", "LIBRARY_DIMENSION_ERROR"}

\* a handle of the host: an MTensor, MRawArray or MImage of an element type
Handle(family, type) == [kind |-> family, type |-> type]

\* the call returned a view over handle h
Made(hp, op, type, h, code) ==
    [heap |-> hp,
     ret  |-> [kind |-> "ret", op |-> op, type |-> type, status |-> "ok",
               err |-> None, view |-> h, hostErr |-> code]]

\* the call threw LibraryError e
Failed(hp, op, type, e, code) ==
    [heap |-> hp,
     ret  |-> [kind |-> "ret", op |-> op, type |-> type, status |-> "error",
               err |-> e, view |-> 0, hostErr |-> code]]

\* the process was ended by an access through an invalid handle
Crashed(hp, op, type, code) ==
    [heap |-> hp,
     ret  |-> [kind |-> "ret", op |-> op, type |-> type, status |-> "crash",
               err |-> None, view |-> 0, hostErr |-> code]]

\* A view constructor run over a handle the host did not produce (a null or
\* an uninitialized pointer): the reads through it are undefined.  The
\* constructor may end the process, may read a type or rank it refuses, or
\* may complete, and then the caller holds a view over no handle (0).
WrapInvalid(hp, op, type, code) ==
    { Crashed(hp, op, type, code),
      Failed(hp, op, type, LibraryError(<<"type or rank refused">>, "LIBRARY_TYPE_ERROR"), code),
      Made(hp, op, type, 0, code) }

\* makeTensor<T>(dims): MTensor_new, then if (err) throw
makeTensor(hp, T, code) ==
    IF code # "LIBRARY_NO_ERROR" \/ ~CanAlloc(hp)
    THEN {Failed(hp, "makeTensor", T, LibraryError(<<"MTensor_new() failed.">>, code), code)}
    ELSE {Made([hp EXCEPT ![NewId(hp)] = Handle("tensor", T)], "makeTensor", T, NewId(hp), code)}

\* makeRawArray<T>(dims): MRawArray_new, then if (err) throw
makeRawArray(hp, T, code) ==
    IF code # "LIBRARY_NO_ERROR" \/ ~CanAlloc(hp)
    THEN {Failed(hp, "makeRawArray", T, LibraryError(<<"MRawArray_new() failed.">>, code), code)}
    ELSE {Made([hp EXCEPT ![NewId(hp)] = Handle("rawarray", T)], "makeRawArray", T, NewId(hp), code)}

\* makeImage<T> and makeImage3D<T>: the result of MImage_new2D / MImage_new3D
\* is not looked at and mim is returned as it is; on a failure mim was never
\* assigned
makeImage(hp, op, T, code) ==
    IF code # "LIBRARY_NO_ERROR" \/ ~CanAlloc(hp)
    THEN WrapInvalid(hp, op, T, code)
    ELSE {Made([hp EXCEPT ![NewId(hp)] = Handle("image", T)], op, T, NewId(hp), code)}

\* GenericRawArrayRef::convertTo<U>(): MRawArray_convertType answers with the
\* new handle only; the handle is wrapped without a test
rawConvertTo(hp, src, U, code) ==
    IF code # "LIBRARY_NO_ERROR" \/ ~CanAlloc(hp)
    THEN WrapInvalid(hp, "RawArray::convertTo", U, code)
    ELSE {Made([hp EXCEPT ![NewId(hp)] = Handle("rawarray", U)], "RawArray::convertTo", U, NewId(hp), code)}

\* GenericImageRef::convertTo<U>(interleaving): MImage_convertType likewise
imageConvertTo(hp, src, U, code) ==
    IF code # "LIBRARY_NO_ERROR" \/ ~CanAlloc(hp)
    THEN WrapInvalid(hp, "Image::convertTo", U, code)
    ELSE {Made([hp EXCEPT ![NewId(hp)] = Handle("image", U)], "Image::convertTo", U, NewId(hp), code)}

\* the caller holds a flat buffer (handle 1) and an image (handle 2)
RawSrcId == 1
ImageSrcId == 2

InitFactory ==
    /\ sm = None /\ res = None /\ it = None
    /\ ndebug = FALSE
    /\ \E rt \in RawArrayTypes, imt \in ImageTypes :
          heap = [h \in HandleIds |->
                    IF h = RawSrcId THEN Handle("rawarray", rt)
                    ELSE IF h = ImageSrcId THEN Handle("image", imt)
                    ELSE Free]
    /\ ret = None
    /\ OtherIdle

\* one factory or conversion call
Call(o) ==
    /\ ret = None
    /\ heap' = o.heap
    /\ ret' = o.ret
    /\ UNCHANGED <<sm, res, it, ndebug, otherVars>>

MakeTensor ==
    \E T \in TensorTypes, code \in HostCodes :
        \E o \in makeTensor(heap, T, code) : Call(o)

MakeRawArray ==
    \E T \in RawArrayTypes, code \in HostCodes :
        \E o \in makeRawArray(heap, T, code) : Call(o)

MakeImage ==
    \E T \in ImageTypes, code \in HostCodes :
        \E o \in makeImage(heap, "makeImage", T, code) : Call(o)

MakeImage3D ==
    \E T \in ImageTypes, code \in HostCodes :
        \E o \in makeImage(heap, "makeImage3D", T, code) : Call(o)

ConvertRawArray ==
    \E U \in RawArrayTypes, code \in HostCodes :
        \E o \in rawConvertTo(heap, RawSrcId, U, code) : Call(o)

ConvertImage ==
    \E U \in ImageTypes, code \in HostCodes :
        \E o \in imageConvertTo(heap, ImageSrcId, U, code) : Call(o)

NextFactory ==
    MakeTensor \/ MakeRawArray \/ MakeImage \/ MakeImage3D \/ ConvertRawArray \/ ConvertImage

SpecFactory == InitFactory /\ [][NextFactory]_vars

-----------------------------------------------------------------------------
(* Claims about host failures *)

\* C13: every failure of a host allocation or conversion call made by a
\* factory or conversion operation surfaces to the caller as an error
\* carrying the host error code; no operation ignores a host failure and
\* returns a view over a handle the host failed to produce.
C13_HostFailureSurfaces ==
    ret.kind = "ret" =>
        /\ ret.hostErr # "LIBRARY_NO_ERROR" =>
              (ret.status = "error" /\ ret.err.code = ret.hostErr)
        /\ ret.status = "ok" => ret.view \in Live(heap)

-----------------------------------------------------------------------------
(* The abort signal and the loops over array elements *)

\* the outcome of an operation run while libData->AbortQ() answers abort
Outcome(op, abort, status, err, out) ==
    [kind |-> "ret", op |-> op, abort |-> abort, status |-> status,
     err |-> err, out |-> out]

\* check_abort(): if (libData->AbortQ()) throw LibraryError();
check_abort(abort) ==
    IF abort
    THEN Outcome("check_abort", abort, "error", LibraryError(<<>>, "LIBRARY_FUNCTION_ERROR"), None)
    ELSE Outcome("check_abort", abort, "ok", None, None)

\* the column-major buffer of an nrow x ncol matrix, elements 1, 2, 3, ...
ColumnMajorData(nrow, ncol) == [k \in 0..(nrow * ncol - 1) |-> k + 1]

\* the transposition copy with check_abort() at the start of the loop
transposedCopy_AbortChecked(from, nrow, ncol, abort) ==
    IF abort
    THEN [status |-> "aborted", to |-> [k \in 0..(nrow * ncol - 1) |-> 0]]
    ELSE [status |-> "done",
          to |-> [k \in 0..(nrow * ncol - 1) |-> from[(k \div ncol) + (k % ncol) * nrow]]]

\* a copy that keeps the column-major order
transposedCopy_Untransposed(from, nrow, ncol, abort) ==
    [status |-> "done",
     to |-> [k \in 0..(nrow * ncol - 1) |-> from[k]]]

\* the accesses of detail::transposedCopy in execution order: the n-th
\* iteration (i = n div nrow, j = n mod nrow) reads from[j + i*nrow] and
\* writes to[i + j*ncol]
transposedCopyAccesses(nrow, ncol) ==
    [n \in 1..(nrow * ncol) |->
        LET i == (n - 1) \div nrow
            j == (n - 1) % nrow
        IN  [read |-> j + i * nrow, write |-> i + j * ncol]]

\* detail::transposedCopy(from, to, nrow, ncol):
\*   for i < ncol, for j < nrow: to[i + j*ncol] = from[j + i*nrow]
\* AbortQ is not called; the loops run to their end whatever abort is
transposedCopy(from, nrow, ncol, abort) ==
    [status |-> "done",
     to |-> [k \in 0..(nrow * ncol - 1) |-> from[(k \div ncol) + (k % ncol) * nrow]]]

\* makeMatrixTransposed(nrow, ncol, data): makeMatrix<T>(nrow, ncol), then
\* the transposition copy into the new tensor
makeMatrixTransposed(hp, nrow, ncol, data, ok, abort) ==
    IF ~(ok /\ CanAlloc(hp))
    THEN [heap |-> hp,
          ret  |-> Outcome("makeMatrixTransposed", abort, "error",
                           LibraryError(<<"MTensor_new() failed.">>, "LIBRARY_MEMORY_ERROR"),
                           [nrow |-> nrow, ncol |-> ncol, from |-> data, started |-> FALSE])]
    ELSE LET c == transposedCopy(data, nrow, ncol, abort)
             t == [DenseTensor(<<nrow, ncol>>) EXCEPT !.data = c.to]
         IN  [heap |-> [hp EXCEPT ![NewId(hp)] = t],
              ret  |-> Outcome("makeMatrixTransposed", abort,
                               IF c.status = "done" THEN "ok" ELSE "error",
                               IF c.status = "done" THEN None
                               ELSE LibraryError(<<>>, "LIBRARY_FUNCTION_ERROR"),
                               [nrow |-> nrow, ncol |-> ncol, from |-> data,
                                started |-> TRUE, t |-> NewId(hp)])]

\* makeCube(nested literal) run while AbortQ() answers abort: the loops over
\* slices, rows and elements do not call AbortQ
makeCubeUnderAbort(hp, nd, c, ok, abort) ==
    LET o == makeCube(hp, nd, c, ok)
    IN  [heap |-> o.heap,
         ret  |-> Outcome("makeCube", abort, o.ret.status,
                          IF o.ret.status = "ok" THEN None
                          ELSE LibraryError(<<o.ret.err>>,
                                            IF o.ret.err = "MTensor_new" THEN "LIBRARY_MEMORY_ERROR"
                                            ELSE "LIBRARY_FUNCTION_ERROR"),
                          [lit |-> c, started |-> o.ret.err # "MTensor_new",
                           view |-> o.ret.view])]

InitAbort ==
    /\ sm = None
    /\ res = None
    /\ it = None
    /\ ndebug = FALSE
    /\ heap = [h \in HandleIds |-> Free]
    /\ ret = None
    /\ OtherIdle

CheckAbort ==
    /\ ret = None
    /\ \E abort \in BOOLEAN : ret' = check_abort(abort)
    /\ UNCHANGED <<sm, res, it, ndebug, heap, otherVars>>

MakeMatrixTransposed ==
    /\ ret = None
    /\ \E nrow \in 0..MaxExtent, ncol \in 0..MaxExtent, ok \in BOOLEAN, abort \in BOOLEAN :
          Apply(makeMatrixTransposed(heap, nrow, ncol, ColumnMajorData(nrow, ncol), ok, abort))

MakeCubeUnderAbort ==
    /\ ret = None
    /\ \E c \in CubeLiterals, ok \in BOOLEAN, abort \in BOOLEAN :
          Apply(makeCubeUnderAbort(heap, ndebug, c, ok, abort))

NextAbort == CheckAbort \/ MakeMatrixTransposed \/ MakeCubeUnderAbort

SpecAbort == InitAbort /\ [][NextAbort]_vars

-----------------------------------------------------------------------------
(* Claims about cancellation *)

\* an abort-class error: LibraryError() as check_abort throws it
AbortError(e) == e = LibraryError(<<>>, "LIBRARY_FUNCTION_ERROR")

\* the tensor holds the transposition of the whole source buffer
Transposed(o, data) ==
    /\ DOMAIN data = 0..(o.nrow * o.ncol - 1)
    /\ \A i \in 0..(o.ncol - 1), j \in 0..(o.nrow - 1) :
          data[i + j * o.ncol] = o.from[j + i * o.nrow]

-----------------------------------------------------------------------------
(* Wrapping an existing handle: TensorRef and SparseArrayRef *)

\* the sparse arrays the host may hand over: one without explicit entries
\* may lack the column-index tensor, and any may be a pattern array
HostSparseArrays ==
    { s \in [kind : {"sparse"}, rank : 1..MaxRank, nnz : 0..MaxPos, hasCi : BOOLEAN,
             hasEv : BOOLEAN, iv : ImplicitValues] : s.nnz > 0 => s.hasCi }

\* the caller holds a sparse array (handle 1) and a tensor (handle 2)
SparseSrcId == 1
TensorSrcId == 2

\* TensorRef<T>::TensorRef(const MTensor &) over handle h: the data pointer
\* and the flattened length are read, nothing is written
WrapDense(hp, h) ==
    [heap |-> hp,
     view |-> [kind |-> "denseView", t |-> h, len |-> FlattenedLength(hp[h].dims)]]

InitWrapHandle ==
    /\ sm = None /\ res = None /\ it = None
    /\ ndebug = FALSE
    /\ \E s \in HostSparseArrays, d \in HandleDims :
          heap = [h \in HandleIds |->
                    IF h = SparseSrcId THEN s
                    ELSE IF h = TensorSrcId THEN Tensor("arg", d)
                    ELSE Free]
    /\ ret = None
    /\ OtherIdle

\* SparseArrayRef<T> sa(msa)
WrapSparseHandle ==
    /\ \E okCi \in BOOLEAN :
          \E w \in WrapSparse(heap, SparseSrcId, okCi) :
              /\ heap' = w.heap
              /\ ret' = [kind |-> "ret", op |-> "wrapSparse", view |-> w.view,
                         before |-> heap, okCi |-> okCi]
    /\ UNCHANGED <<sm, res, it, ndebug, otherVars>>

\* TensorRef<T> t(mt)
WrapTensorHandle ==
    /\ LET w == WrapDense(heap, TensorSrcId)
       IN  /\ heap' = w.heap
           /\ ret' = [kind |-> "ret", op |-> "wrapTensor", view |-> w.view,
                      before |-> heap, okCi |-> TRUE]
    /\ UNCHANGED <<sm, res, it, ndebug, otherVars>>

NextWrapHandle == WrapSparseHandle \/ WrapTensorHandle

SpecWrapHandle == InitWrapHandle /\ [][NextWrapHandle]_vars

-----------------------------------------------------------------------------
(* Claims about wrapping *)

\* C15 as stated: constructing any view by wrapping an existing handle
\* performs validation only: it makes no host allocation and does not modify
\* the wrapped handle's state, for every view family including sparse views
\* over handles with zero explicit entries.
C15_WrappingLeavesHandle ==
    ret.kind = "ret" => heap = ret.before

\* C15 as amended: wrapping a tensor handle modifies nothing; wrapping a
\* sparse handle modifies nothing when the handle has a column-index tensor,
\* and otherwise requests one empty integer tensor from the host and, when
\* the host provides it, stores it in the handle as its column indices; no
\* other handle and no other part of the handle is modified.
C15_SparseWrapInsertsColumnIndices ==
    ret.kind = "ret" =>
        /\ ret.op = "wrapTensor" => heap = ret.before
        /\ ret.op = "wrapSparse" =>
              LET old == ret.before[SparseSrcId]
              IN  /\ old.hasCi => heap = ret.before
                  /\ (~old.hasCi /\ ret.okCi) =>
                        heap = [ret.before EXCEPT ![SparseSrcId].hasCi = TRUE]
                  /\ (~old.hasCi /\ ~ret.okCi) => heap = ret.before

\* a sparse handle without explicit entries and without column indices was
\* wrapped, and now holds a column-index tensor
C15_Witness ==
    /\ ret.kind = "ret"
    /\ ret.op = "wrapSparse"
    /\ ret.before[SparseSrcId].nnz = 0
    /\ ~ret.before[SparseSrcId].hasCi
    /\ heap[SparseSrcId].hasCi

\* C16: for every constructed sparse view of any rank, length()/size()
\* (the flattened length of the column-index tensor) equals the number of
\* explicitly stored entries (nnz, the host's rowPointers()[last]).
C16_LengthIsExplicitCount ==
    (ret.kind = "ret" /\ ret.op = "wrapSparse" /\ ~ret.view.ciNull) =>
        ret.view.len = heap[ret.view.sa].nnz

-----------------------------------------------------------------------------
(* Claims about begin(), end() and the two directions of the iterator,
   under SpecSparseIter *)

\* the first row that has an explicit entry
FirstNonEmptyRow(s) ==
    CHOOSE r \in 0..(s.nrows - 1) :
        /\ s.rp[r + 1] > 0
        /\ \A q \in 0..(r - 1) : s.rp[q + 1] = 0

\* the iterator is the result of begin(): ++ leaves an offset of at least 1,
\* and end() and -- are not marked as forward iterators
FromBegin(i) == i.kind = "iter" /\ i.fwd /\ i.index = 0

\* C17: begin() of a 2-D sparse view with at least one explicit entry is at
\* storage offset 0 and at the first row that has explicit entries, also
\* when the leading empty rows are as many as the explicit entries or more.
C17_BeginAtFirstNonEmptyRow ==
    (FromBegin(it) /\ Size(sm) > 0) => IterRow(it) = FirstNonEmptyRow(sm)

\* C18: starting from begin(), the iterator first compares equal to end()
\* after exactly size() applications of ++ (none for a matrix without
\* explicit entries): a forward iterator has offset 0 at begin(), each ++
\* adds one to the offset, and it equals end() exactly at offset size();
\* each ++ advances the row by at most size() steps.
C18_IterationReachesEndAfterSizeSteps ==
    /\ []((it.kind = "iter" /\ it.fwd) =>
            /\ it.index \in 0..Size(sm)
            /\ IterEq(it, end(sm)) <=> it.index = Size(sm))
    /\ [][(it.kind = "iter" /\ it'.kind = "iter" /\ it'.fwd /\ it'.index > 0) =>
            /\ it.fwd
            /\ it'.index = it.index + 1
            /\ it'.row - it.row \in 0..Size(sm)]_vars

\* the iteration over two entries has reached end() at a row that is not
\* rows()
C18_Witness ==
    /\ it.kind = "iter"
    /\ it.fwd
    /\ Size(sm) = 2
    /\ it.index = 2
    /\ IterEq(it, end(sm))
    /\ it.row # sm.nrows

\* ++ then -- and -- then ++ give back the row and the offset
IncThenDecRestores(s, i) ==
    \A u \in Increment(s, i) : \A d \in Decrement(s, u) :
        d.row = i.row /\ d.index = i.index

DecThenIncRestores(s, i) ==
    \A d \in Decrement(s, i) : \A u \in Increment(s, d) :
        u.row = i.row /\ u.index = i.index

\* C19: for every iterator at an explicit entry reached by iteration, ++ then
\* -- restores exactly (row, offset); for every such iterator other than
\* begin(), and for end(), -- then ++ restores exactly (row, offset).
C19_RetreatMirrorsAdvance ==
    it.kind = "iter" =>
        /\ (it.fwd /\ it.index < Size(sm)) => IncThenDecRestores(sm, it)
        /\ (it.index > 0 /\ ((it.fwd /\ it.index < Size(sm)) \/ it = end(sm))) =>
              DecThenIncRestores(sm, it)

\* C20: advancing the iterator from the last explicit entry yields the end
\* sentinel: its storage offset is size() and its row() is rows().
C20_AdvanceFromLastIsEnd ==
    (it.kind = "iter" /\ it.fwd /\ Size(sm) > 0 /\ it.index = Size(sm)) =>
        IterRow(it) = sm.nrows

\* C21: begin() and every ++ / -- of the 2-D sparse iterator applied between
\* begin() and end() read the row-pointer vector only at indices within
\* [0, rows], for every matrix shape.
C21_RowPointerReadsInBounds ==
    it.kind = "iter" => ~it.oob

-----------------------------------------------------------------------------
(* makeSparseMatrix *)

\* makeSparseMatrix(pos, vals, nrow, ncol, imp): massert(pos.cols() == 2),
\* dims = makeVector<mint>({nrow, ncol}), makeSparseArray(pos, vals, dims,
\* imp) converted to a SparseMatrixRef, dims.free().  An error out of
\* makeSparseArray or out of the conversion leaves the function before
\* dims.free().  okDims: the host allocates the dimension vector.
makeSparseMatrix(hp, nd, pos, vals, imp, a, okDims) ==
    IF ~nd /\ hp[pos].dims[2] # 2
    THEN {Throw(hp, "makeSparseMatrix", "assert", {})}
    ELSE IF ~(okDims /\ CanAlloc(hp))
    THEN {Throw(hp, "makeSparseMatrix", "MTensor_new", {})}
    ELSE LET dimsId == NewId(hp)
             hp1    == [hp EXCEPT ![dimsId] = Tensor("dims", <<2>>)]
         IN  { IF o.ret.status = "error"
               THEN Throw(o.heap, "makeSparseMatrix", o.ret.err,
                          o.ret.allocated \cup {dimsId})
               ELSE IF o.heap[o.ret.view.sa].rank # 2
               THEN Throw(o.heap, "makeSparseMatrix", "SparseMatrixRef: Matrix expected.",
                          o.ret.allocated \cup {dimsId})
               ELSE Return([o.heap EXCEPT ![dimsId] = Free], "makeSparseMatrix",
                           o.ret.view, o.ret.allocated \cup {dimsId})
               : o \in makeSparseArray(hp1, nd, pos, vals, dimsId, imp, a) }

\* the caller holds a positions matrix (handle 1) and a values vector
\* (handle 2); their shapes need not agree
InitSparseMatrix ==
    /\ sm = None
    /\ res = None
    /\ it = None
    /\ ndebug \in BOOLEAN
    /\ \E np \in 0..MaxPos, pc \in 1..MaxRank, nv \in 0..MaxPos :
          heap = [h \in HandleIds |->
                    IF h = PosId THEN Tensor("pos", <<np, pc>>)
                    ELSE IF h = ValsId THEN Tensor("vals", <<nv>>)
                    ELSE Free]
    /\ ret = None
    /\ OtherIdle

MakeSparseMatrix ==
    \E imp \in ImplicitValues, a \in HostAnswers, okDims \in BOOLEAN :
        \E o \in makeSparseMatrix(heap, ndebug, PosId, ValsId, imp, a, okDims) : Apply(o)

\* sa.free() on a sparse matrix a factory returned
FreeSparseMatrix ==
    \E h \in Live(heap) :
        /\ heap[h].kind = "sparse"
        /\ Apply(freeSparse(heap, h))

NextSparseMatrix == MakeSparseMatrix \/ FreeSparseMatrix

SpecSparseMatrix == InitSparseMatrix /\ [][NextSparseMatrix]_vars

\* C22: makeSparseMatrix releases the temporary dimension vector on every
\* exit path, on a normal return and when makeSparseArray or the rank-2
\* validation raises an error: no handle allocated by makeSparseMatrix other
\* than the returned sparse array remains allocated afterwards.
C22_MakeSparseMatrixFreesDims ==
    (ret.kind = "ret" /\ ret.op = "makeSparseMatrix") => Leftover = {}

\* C23: makeSparseArray validates positions.columns == dimensions.length and
\* positions.rows == values.length before making any host allocation; it
\* never frees or modifies the caller's positions, values or dimensions
\* handles; on every error exit no handle allocated by the call remains
\* allocated (the temporary implicit-value tensor is freed whether the host's
\* constructor succeeds or fails).
C23_MakeSparseArrayValidatesFirst ==
    (ret.kind = "ret" /\ ret.op = "makeSparseArray") =>
        /\ ~ValidSparseArgs => (ret.status = "error" /\ ret.allocated = {})
        /\ ret.status = "error" => Leftover = {}
        /\ \A h \in ret.allocated :
              heap[h].kind = "tensor" => heap[h].role # "implicit"
        /\ heap[PosId].kind = "tensor" /\ heap[PosId].role = "pos"
        /\ heap[ValsId].kind = "tensor" /\ heap[ValsId].role = "vals"
        /\ heap[DimsId].kind = "tensor" /\ heap[DimsId].role = "dims"

\* C24: when makeMatrix or makeCube from a nested literal detects a jagged
\* input and raises the error, the dense handle it had already allocated for
\* the result is released before the error propagates: a failed
\* nested-literal construction leaves no allocated handle behind.
C24_FailedLiteralReleasesTensor ==
    (/\ ret.kind = "ret"
     /\ ret.op \in {"makeMatrix", "makeCube"}
     /\ ret.status = "error"
     /\ ret.err = "assert") => Leftover = {}

-----------------------------------------------------------------------------
(* Pixel iterators: pointers are offsets from image_data *)

\* GenericImageRef::channelSize
channelSize(g) == g.slices * g.rows * g.cols

\* pixel_iterator(ptr, step)
pixel_iterator(ptr, step) == [ptr |-> ptr, step |-> step]

\* operator == and operator !=
PixelEq(a, b) == a.ptr = b.ptr

PixelNe(a, b) == a.ptr # b.ptr

\* operator ++ : ptr += step
PixelIncrement(a) == pixel_iterator(a.ptr + a.step, a.step)

\* operator + (ptrdiff_t n)
PixelPlus(a, n) == pixel_iterator(a.ptr + n * a.step, a.step)

\* operator * : the offset of the element the iterator refers to
PixelDeref(a) == a.ptr

\* pixelBegin with unit stride in both layouts
pixelBegin_UnitStride(g, channel) ==
    IF g.interleaved
    THEN pixel_iterator(channel, 1)
    ELSE pixel_iterator(channelSize(g) * channel, 1)

\* ImageRef::pixelBegin, Image3DRef::pixelBegin
pixelBegin(g, channel) ==
    IF g.interleaved
    THEN pixel_iterator(channel, g.channels)
    ELSE pixel_iterator(channelSize(g) * channel, 1)

\* ImageRef::pixelEnd, Image3DRef::pixelEnd
pixelEnd(g, channel) == PixelPlus(pixelBegin(g, channel), channelSize(g))

\* a function of non-void type that flows off its end without a return
\* statement: the caller receives an arbitrary value of the return type
\* (here any difference of magnitude up to the image length; any bool)
UndefinedPtrdiff(g) == (0 - ImageLength(g))..ImageLength(g)

UndefinedBool == BOOLEAN

\* ptrdiff_t operator - (const pixel_iterator &it): (ptr - it.ptr)/step is
\* evaluated and discarded, nothing is returned
PixelDifference(g, a, b) == UndefinedPtrdiff(g)

\* operator <, >, <=, >= : the comparison is evaluated and discarded,
\* nothing is returned
PixelRelational(op, a, b) == UndefinedBool

-----------------------------------------------------------------------------
(* Specification of per-channel pixel iteration:
   for (it = pixelBegin(ch); it != pixelEnd(ch); ++it) *)

InitPixelIter ==
    /\ sm = None /\ res = None /\ it = None
    /\ ndebug = FALSE /\ heap = <<>> /\ ret = None
    /\ \E rank \in {2, 3}, slices \in 1..MaxImgDim, rows \in 1..MaxImgDim,
          cols \in 1..MaxImgDim, channels \in 1..MaxChannels,
          interleaved \in BOOLEAN :
          /\ rank = 2 => slices = 1
          /\ im = [kind |-> "image",
                   g |-> Geometry(rank, slices, rows, cols, channels, interleaved)]
    /\ px = None
    /\ wr = None

\* it = pixelBegin(channel); k counts the increments applied since
PixelBegin ==
    /\ px = None
    /\ \E channel \in 0..(im.g.channels - 1) :
          px' = [kind |-> "pit", channel |-> channel,
                 it |-> pixelBegin(im.g, channel), k |-> 0]
    /\ UNCHANGED <<sm, res, it, hostVars, im, wr>>

\* the loop body is entered while it != pixelEnd(channel); ++it
PixelNext ==
    /\ px.kind = "pit"
    /\ PixelNe(px.it, pixelEnd(im.g, px.channel))
    /\ px.k <= ImageLength(im.g)
    /\ px' = [px EXCEPT !.it = PixelIncrement(@), !.k = @ + 1]
    /\ UNCHANGED <<sm, res, it, hostVars, im, wr>>

NextPixelIter == PixelBegin \/ PixelNext

SpecPixelIter == InitPixelIter /\ [][NextPixelIter]_vars

\* the coordinates <<slice, row, col, channel>> of the k-th pixel of a
\* channel in row-major order
KthCoord(g, k, channel) ==
    << k \div (g.rows * g.cols), (k \div g.cols) % g.rows, k % g.cols, channel >>

\* C25: iterating one channel from pixelBegin(ch) to pixelEnd(ch) with ++
\* and != takes exactly channelSize() steps in both storage layouts; the
\* k-th element visited is the cell the indexed pixel (k / cols, k mod cols,
\* ch) refers to (in three dimensions k = slice*rows*cols + row*cols + col),
\* and no cell of another channel is visited.
C25_ChannelIterationLayoutAgnostic ==
    px.kind = "pit" =>
        /\ px.k <= channelSize(im.g)
        /\ PixelEq(px.it, pixelEnd(im.g, px.channel)) <=> px.k = channelSize(im.g)
        /\ px.k < channelSize(im.g) =>
              /\ PixelDeref(px.it) = PixelOffset(im.g, KthCoord(im.g, px.k, px.channel))
              /\ \A c \in Coords(im.g) :
                    PixelOffset(im.g, c) = PixelDeref(px.it) => c[4] = px.channel

\* interleaved 2x2 image with two channels: the third element of channel 1
\* is pixel (1, 0, 1), at offset 5
C25_Witness ==
    /\ px.kind = "pit"
    /\ im.g.rank = 2 /\ im.g.interleaved
    /\ im.g.rows = 2 /\ im.g.cols = 2 /\ im.g.channels = 2
    /\ px.channel = 1 /\ px.k = 2
    /\ PixelDeref(px.it) = ImageOffset(im.g, 1, 0, 1)

-----------------------------------------------------------------------------
(* Specification of pixel iterator comparison: a = pixelBegin(ch) + p and
   b = pixelBegin(ch) + q are subtracted or compared *)

InitPixelCompare == InitPixelIter

PixelSubtract ==
    /\ res = None
    /\ \E channel \in 0..(im.g.channels - 1),
          p \in 0..channelSize(im.g), q \in 0..channelSize(im.g) :
          LET a == PixelPlus(pixelBegin(im.g, channel), p)
              b == PixelPlus(pixelBegin(im.g, channel), q)
          IN  \E v \in PixelDifference(im.g, a, b) :
                 res' = [kind |-> "cmp", op |-> "-", channel |-> channel,
                         p |-> p, q |-> q, a |-> a, b |-> b, val |-> v]
    /\ UNCHANGED <<sm, it, hostVars, im, px, wr>>

PixelCompare ==
    /\ res = None
    /\ \E channel \in 0..(im.g.channels - 1),
          p \in 0..channelSize(im.g), q \in 0..channelSize(im.g),
          op \in {"<", ">", "<=", ">="} :
          LET a == PixelPlus(pixelBegin(im.g, channel), p)
              b == PixelPlus(pixelBegin(im.g, channel), q)
          IN  \E v \in PixelRelational(op, a, b) :
                 res' = [kind |-> "cmp", op |-> op, channel |-> channel,
                         p |-> p, q |-> q, a |-> a, b |-> b, val |-> v]
    /\ UNCHANGED <<sm, it, hostVars, im, px, wr>>

NextPixelCompare == PixelSubtract \/ PixelCompare

SpecPixelCompare == InitPixelCompare /\ [][NextPixelCompare]_vars

\* C26: for two iterators over the same channel at positions p and q,
\* a - b is p - q (the pointer difference divided by the stride) and
\* a < b, a > b, a <= b, a >= b agree with the order of p and q; in
\* particular pixelEnd(ch) - pixelBegin(ch) is channelSize().
C26_DifferenceAndOrderOfPixelIterators ==
    res.kind = "cmp" =>
        /\ res.op = "-"  => res.val = res.p - res.q
        /\ res.op = "<"  => res.val = (res.p < res.q)
        /\ res.op = ">"  => res.val = (res.p > res.q)
        /\ res.op = "<=" => res.val = (res.p <= res.q)
        /\ res.op = ">=" => res.val = (res.p >= res.q)
        /\ (res.op = "-" /\ res.p = channelSize(im.g) /\ res.q = 0) =>
              res.val = channelSize(im.g)

-----------------------------------------------------------------------------
(* Claims about the transposing factory *)

\* C27: makeMatrixTransposed(nrow, ncol, data) returns an nrow x ncol matrix
\* m with m(r, c) = data[c*nrow + r] for every r < nrow and c < ncol; the
\* copy writes every destination element exactly once and reads and writes
\* no index outside [0, nrow*ncol).
C27_TransposedFactoryExact ==
    (ret.kind = "ret" /\ ret.op = "makeMatrixTransposed" /\ ret.status = "ok") =>
        LET o   == ret.out
            m   == heap[o.t]
            acc == transposedCopyAccesses(o.nrow, o.ncol)
            N   == o.nrow * o.ncol
        IN  /\ m.dims = <<o.nrow, o.ncol>>
            /\ DOMAIN m.data = 0..(N - 1)
            /\ \A r \in 0..(o.nrow - 1), c \in 0..(o.ncol - 1) :
                  m.data[MatrixOffset(m.dims, r, c)] = o.from[c * o.nrow + r]
            /\ \A k \in 0..(N - 1) :
                  Cardinality({n \in DOMAIN acc : acc[n].write = k}) = 1
            /\ \A n \in DOMAIN acc :
                  /\ acc[n].read \in 0..(N - 1)
                  /\ acc[n].write \in 0..(N - 1)

\* a 2x2 matrix made from the column-major buffer {1, 2, 3, 4}: m(0, 1) is
\* data[2] = 3 and m(1, 0) is data[1] = 2
C27_Witness ==
    /\ ret.kind = "ret"
    /\ ret.op = "makeMatrixTransposed"
    /\ ret.status = "ok"
    /\ ~ret.abort
    /\ ret.out.nrow = 2 /\ ret.out.ncol = 2
    /\ heap[ret.out.t].data[MatrixOffset(<<2, 2>>, 0, 1)] = 3
    /\ heap[ret.out.t].data[MatrixOffset(<<2, 2>>, 1, 0)] = 2

-----------------------------------------------------------------------------
(* Claims about the column-index tensor of a wrapped sparse handle *)

\* C28: after SparseArrayRef is constructed over any sparse handle, the view
\* and the handle have a column-index tensor: if the host reported none, an
\* empty one is installed, columnIndices() is not null and length() is 0; a
\* handle that had a column-index tensor keeps it unchanged.
C28_ColumnIndicesAlwaysPresent ==
    (ret.kind = "ret" /\ ret.op = "wrapSparse") =>
        /\ ~ret.view.ciNull
        /\ heap[SparseSrcId].hasCi
        /\ ~ret.before[SparseSrcId].hasCi => ret.view.len = 0
        /\ ret.before[SparseSrcId].hasCi => heap = ret.before

=============================================================================
